---- MODULE Spec2Model ----
(***************************************************************************)
(* Model of dashcam_stitcher.py: the scanner (find_video_files), the       *)
(* manifest writer (create_concat_file), output path resolution and the    *)
(* ffmpeg runner of stitch_videos.  Strings are sequences of one-character *)
(* strings so that prefix, suffix, substring, split and lexical comparison *)
(* are computed the way the Python code computes them.                     *)
(***************************************************************************)
EXTENDS Integers, Sequences, FiniteSets, TLC

VARIABLES
    fs,                 \* the filesystem: set of [path, kind] entries
    cwd,                \* the process's working directory
    directory,          \* stitch_videos parameter (abspath'd at line 84)
    output_file,        \* stitch_videos parameter, later the resolved path
    destination_folder, \* stitch_videos parameter
    video_files,        \* sequence of <<type, path>> tuples
    concat_file,        \* path of concat_list.txt once computed
    concat_data,        \* characters written to concat_list.txt
    pc,                 \* position of stitch_videos
    result,             \* "none", "True", "False" or "raised"
    printed,            \* the lines printed so far, as records
    file_count,         \* progress counter of the read loop
    stderr_output,      \* diagnostic lines retained by the read loop
    mux,                \* the ffmpeg child: "none", "running", "exited"
    mux_op,             \* the child's pending write: <<>> or <<stream, line>>
    mux_written,        \* number of writes the child has begun
    stderr_pipe,        \* lines in the child's stderr pipe
    stdout_pipe,        \* lines in the child's stdout pipe
    returncode,         \* the child's exit status, -1 while unknown
    launches,           \* number of Popen calls that started a child
    args                \* the arguments stitch_videos was called with

vars == <<fs, cwd, directory, output_file, destination_folder, video_files,
          concat_file, concat_data, pc, result, printed, file_count,
          stderr_output, mux, mux_op, mux_written, stderr_pipe, stdout_pipe,
          returncode, launches, args>>

\* Bounds of the model.
MaxFiles == 3
MaxLines == 3
PipeCap == 1

None == <<"None">>

----------------------------------------------------------------------------
\* Python str operations.

\* ord(c) for the characters the model uses.
Ord(c) ==
    CASE c = "\n" -> 10 [] c = " " -> 32 [] c = "'" -> 39 [] c = "." -> 46
      [] c = "/" -> 47 [] c = "0" -> 48 [] c = "4" -> 52
      [] c = "A" -> 65 [] c = "D" -> 68 [] c = "E" -> 69 [] c = "F" -> 70
      [] c = "I" -> 73 [] c = "K" -> 75 [] c = "M" -> 77 [] c = "O" -> 79
      [] c = "P" -> 80 [] c = "S" -> 83 [] c = "V" -> 86 [] c = "W" -> 87
      [] c = "\\" -> 92 [] c = "_" -> 95
      [] c = "a" -> 97 [] c = "b" -> 98 [] c = "c" -> 99 [] c = "d" -> 100
      [] c = "e" -> 101 [] c = "f" -> 102 [] c = "g" -> 103 [] c = "i" -> 105
      [] c = "k" -> 107 [] c = "l" -> 108 [] c = "m" -> 109 [] c = "n" -> 110
      [] c = "o" -> 111 [] c = "p" -> 112 [] c = "q" -> 113 [] c = "r" -> 114
      [] c = "s" -> 115 [] c = "t" -> 116 [] c = "u" -> 117 [] c = "v" -> 118
      [] c = "w" -> 119 [] c = "x" -> 120 [] c = "y" -> 121 [] c = "z" -> 122

\* str.lower() on one character.
LowerChar(c) ==
    CASE c = "A" -> "a" [] c = "D" -> "d" [] c = "E" -> "e" [] c = "F" -> "f"
      [] c = "I" -> "i" [] c = "K" -> "k" [] c = "M" -> "m" [] c = "O" -> "o"
      [] c = "P" -> "p" [] c = "S" -> "s" [] c = "V" -> "v" [] c = "W" -> "w"
      [] OTHER -> c

lower(s) == [i \in 1..Len(s) |-> LowerChar(s[i])]

\* a < b on str: lexicographic by code point.
RECURSIVE StrLess(_, _)
StrLess(a, b) ==
    IF b = <<>> THEN FALSE
    ELSE IF a = <<>> THEN TRUE
    ELSE IF Ord(a[1]) < Ord(b[1]) THEN TRUE
    ELSE IF Ord(a[1]) > Ord(b[1]) THEN FALSE
    ELSE StrLess(Tail(a), Tail(b))

startswith(s, p) == Len(s) >= Len(p) /\ SubSeq(s, 1, Len(p)) = p

endswith(s, p) == Len(s) >= Len(p) /\ SubSeq(s, Len(s) - Len(p) + 1, Len(s)) = p

\* sub in s
Contains(s, sub) ==
    \E i \in 1..(Len(s) - Len(sub) + 1) : SubSeq(s, i, i + Len(sub) - 1) = sub

\* s.replace(old, new) for single characters
replace(s, old, new) == [i \in 1..Len(s) |-> IF s[i] = old THEN new ELSE s[i]]

\* s.split(sep) for a single-character separator
RECURSIVE split(_, _)
split(s, sep) ==
    IF \A i \in 1..Len(s) : s[i] # sep THEN <<s>>
    ELSE LET k == CHOOSE i \in 1..Len(s) :
                     s[i] = sep /\ \A j \in 1..(i - 1) : s[j] # sep
         IN  <<SubSeq(s, 1, k - 1)>> \o split(SubSeq(s, k + 1, Len(s)), sep)

\* sep.join(parts)
RECURSIVE joinWith(_, _)
joinWith(parts, sep) ==
    IF parts = <<>> THEN <<>>
    ELSE IF Len(parts) = 1 THEN parts[1]
    ELSE parts[1] \o <<sep>> \o joinWith(Tail(parts), sep)

----------------------------------------------------------------------------
\* os.path (POSIX flavour).

\* index of the last "/" in p, 0 when there is none
LastSlash(p) ==
    IF \A i \in 1..Len(p) : p[i] # "/" THEN 0
    ELSE CHOOSE i \in 1..Len(p) :
             p[i] = "/" /\ \A j \in (i + 1)..Len(p) : p[j] # "/"

basename(p) == SubSeq(p, LastSlash(p) + 1, Len(p))

RECURSIVE rstripSlash(_)
rstripSlash(s) ==
    IF s # <<>> /\ s[Len(s)] = "/" THEN rstripSlash(SubSeq(s, 1, Len(s) - 1))
    ELSE s

dirname(p) ==
    LET head == SubSeq(p, 1, LastSlash(p))
    IN  IF head # <<>> /\ \E i \in 1..Len(head) : head[i] # "/"
        THEN rstripSlash(head) ELSE head

join(a, b) ==
    IF startswith(b, <<"/">>) THEN b
    ELSE IF a = <<>> \/ endswith(a, <<"/">>) THEN a \o b
    ELSE a \o <<"/">> \o b

\* the component stack of normpath: "" and "." dropped, ".." pops
RECURSIVE NormComps(_, _)
NormComps(comps, acc) ==
    IF comps = <<>> THEN acc
    ELSE LET c == Head(comps) IN
         IF c = <<>> \/ c = <<".">> THEN NormComps(Tail(comps), acc)
         ELSE IF c = <<".", ".">>
              THEN NormComps(Tail(comps),
                             IF acc = <<>> THEN acc
                             ELSE SubSeq(acc, 1, Len(acc) - 1))
         ELSE NormComps(Tail(comps), Append(acc, c))

\* os.path.abspath: join with the working directory, then normpath.  The
\* joined path is absolute, so ".." at the root is dropped.
abspath(p) ==
    LET full == IF startswith(p, <<"/">>) THEN p ELSE join(cwd, p)
    IN  <<"/">> \o joinWith(NormComps(split(full, "/"), <<>>), "/")

----------------------------------------------------------------------------
\* The filesystem.

exists(p) == \E e \in fs : e.path = p
isdir(p)  == \E e \in fs : e.path = p /\ e.kind = "dir"
isfile(p) == \E e \in fs : e.path = p /\ e.kind = "file"

\* the names os.listdir(d) returns, in no particular order
listdir(d) ==
    { basename(e.path) : e \in { x \in fs : Len(x.path) > Len(d) + 1
                                            /\ dirname(x.path) = d } }

\* every order in which a directory's entries can be enumerated
Orders(S) ==
    { s \in [1..Cardinality(S) -> S] :
          \A i, j \in 1..Cardinality(S) : i # j => s[i] # s[j] }

----------------------------------------------------------------------------
\* String literals of the program.

S_Movie   == <<"M", "o", "v", "i", "e">>
S_Parking == <<"P", "a", "r", "k", "i", "n", "g">>
S_concat_list == <<"c", "o", "n", "c", "a", "t", "_", "l", "i", "s", "t",
                   ".", "t", "x", "t">>
S_stitched_output == <<"s", "t", "i", "t", "c", "h", "e", "d", "_", "o", "u",
                       "t", "p", "u", "t", ".", "m", "p", "4">>
S_Opening == <<"O", "p", "e", "n", "i", "n", "g", " ", "'">>
S_PF      == <<"P", "F", ".">>
S_warning == <<"w", "a", "r", "n", "i", "n", "g">>
S_error   == <<"e", "r", "r", "o", "r">>
S_file    == <<"f", "i", "l", "e", " ", "'">>

\* line 19
video_extensions ==
    << <<".", "m", "p", "4">>, <<".", "a", "v", "i">>, <<".", "m", "o", "v">>,
       <<".", "m", "k", "v">>, <<".", "M", "P", "4">>, <<".", "A", "V", "I">>,
       <<".", "M", "O", "V">>, <<".", "M", "K", "V">> >>

\* line 164: the extensions looked for inside a diagnostic line
line_extensions ==
    << <<".", "m", "p", "4">>, <<".", "M", "P", "4">>, <<".", "a", "v", "i">>,
       <<".", "A", "V", "I">>, <<".", "m", "o", "v">>, <<".", "M", "O", "V">>,
       <<".", "m", "k", "v">>, <<".", "M", "K", "V">> >>

\* str.endswith(tuple)
endswithAny(s, sufs) == \E i \in 1..Len(sufs) : endswith(s, sufs[i])

Truthy(x) == x # None /\ x # <<>>

----------------------------------------------------------------------------
\* find_video_files

detect_dcim_structure(dir) ==
    LET movie_path == join(dir, S_Movie)
    IN  IF exists(movie_path) /\ isdir(movie_path) THEN movie_path ELSE None

\* the directory find_video_files scans (lines 23-25)
ScanDirectory(dir) ==
    LET movie_folder == detect_dcim_structure(dir)
    IN  IF movie_folder # None THEN movie_folder ELSE dir

\* one listing loop (lines 31-38 and 46-52): listing is os.listdir's answer
RECURSIVE CollectFiles(_, _, _)
CollectFiles(folder, listing, type) ==
    IF listing = <<>> THEN <<>>
    ELSE LET file == Head(listing)
             file_path == join(folder, file)
             rest == CollectFiles(folder, Tail(listing), type)
         IN  IF startswith(file, <<".">>) \/ startswith(file, <<".", "_">>)
             THEN rest
             ELSE IF isfile(file_path) /\ endswithAny(file, video_extensions)
                  THEN <<<<type, file_path>>>> \o rest
                  ELSE rest

\* list.sort(key=...): stable, an element goes after every element whose key
\* is not greater than its own
\* InsertByKey placing an element before the elements of equal key, as an
\* unstable sort may
RECURSIVE InsertBeforeEqual(_, _)
InsertBeforeEqual(x, sorted) ==
    IF sorted = <<>> THEN <<x>>
    ELSE IF ~StrLess(basename(sorted[1][2]), basename(x[2]))
         THEN <<x>> \o sorted
         ELSE <<sorted[1]>> \o InsertBeforeEqual(x, Tail(sorted))

RECURSIVE InsertByKey(_, _)
InsertByKey(x, sorted) ==
    IF sorted = <<>> THEN <<x>>
    ELSE IF StrLess(basename(x[2]), basename(sorted[1][2]))
         THEN <<x>> \o sorted
         ELSE <<sorted[1]>> \o InsertByKey(x, Tail(sorted))

RECURSIVE SortFrom(_, _)
SortFrom(todo, sorted) ==
    IF todo = <<>> THEN sorted
    ELSE SortFrom(Tail(todo), InsertByKey(Head(todo), sorted))

\* line 59
sort_by_basename(files) == SortFrom(files, <<>>)

\* listing1 and listing2 are what os.listdir returns for the scanned folder
\* and for its Parking subfolder
find_video_files(dir, listing1, listing2) ==
    LET d == ScanDirectory(dir)
        driving == CollectFiles(d, listing1, "driving")
        parking_folder == join(d, S_Parking)
        parking == IF exists(parking_folder) /\ isdir(parking_folder)
                   THEN CollectFiles(parking_folder, listing2, "parking")
                   ELSE <<>>
    IN  sort_by_basename(driving \o parking)

----------------------------------------------------------------------------
\* create_concat_file

RECURSIVE create_concat_file(_)
create_concat_file(files) ==
    IF files = <<>> THEN <<>>
    ELSE LET video_path == replace(abspath(files[1][2]), "\\", "/")
         IN  S_file \o video_path \o <<"'", "\n">>
             \o create_concat_file(Tail(files))

----------------------------------------------------------------------------
\* Output path resolution (lines 121-135): the resolved path and whether the
\* "Ignoring destination folder" warning is printed.

\* resolve_output with a bare name always placed in the source directory
resolve_output_in_source(out, dest, dir) ==
    LET name == IF ~Truthy(out) THEN S_stitched_output ELSE out
    IN  IF dirname(name) = <<>>
        THEN [path |-> abspath(join(dir, name)), warn |-> FALSE]
        ELSE [path |-> abspath(name), warn |-> Truthy(dest)]

resolve_output(out, dest, dir) ==
    LET name == IF ~Truthy(out) THEN S_stitched_output ELSE out
    IN  IF dirname(name) = <<>>
        THEN [path |-> abspath(IF Truthy(dest) THEN join(dest, name)
                                               ELSE join(dir, name)),
              warn |-> FALSE]
        ELSE [path |-> abspath(name), warn |-> Truthy(dest)]

----------------------------------------------------------------------------
\* What is printed, as records.

Msg(kind) ==
    [kind |-> kind, n |-> 0, total |-> 0, tag |-> "", text |-> <<>>,
     opened |-> <<>>]

Progress(n, total, tag, filename, opened) ==
    [kind |-> "progress", n |-> n, total |-> total, tag |-> tag,
     text |-> filename, opened |-> opened]

TextMsg(kind, text) ==
    [kind |-> kind, n |-> 0, total |-> 0, tag |-> "", text |-> text,
     opened |-> <<>>]

----------------------------------------------------------------------------
\* stitch_videos, up to the launch of ffmpeg.

RECURSIVE PathAndParents(_)
PathAndParents(p) ==
    IF p = <<>> \/ p = <<"/">> THEN {}
    ELSE {p} \cup PathAndParents(dirname(p))

\* os.makedirs(p, exist_ok=True)
makedirs(p) ==
    fs \cup { [path |-> q, kind |-> "dir"] :
                  q \in { r \in PathAndParents(p) : ~exists(r) } }

runnerVars == <<file_count, stderr_output, mux, mux_op, mux_written,
                stderr_pipe, stdout_pipe, returncode, launches>>

\* CheckDirectory with the destination folder created before the source
\* directory is looked at
CheckDirectoryCreatesFirst ==
    /\ pc = "start"
    /\ directory' = abspath(directory)
    /\ IF Truthy(destination_folder)
       THEN /\ destination_folder' = abspath(destination_folder)
            /\ fs' = IF ~exists(destination_folder')
                     THEN makedirs(destination_folder') ELSE fs
       ELSE UNCHANGED <<fs, destination_folder>>
    /\ IF ~exists(directory')
       THEN /\ printed' = Append(printed, Msg("error_no_directory"))
            /\ result' = "False"
            /\ pc' = "done"
       ELSE /\ pc' = "scan"
            /\ UNCHANGED <<printed, result>>
    /\ UNCHANGED <<cwd, output_file, video_files, concat_file, concat_data,
                   args>>
    /\ UNCHANGED runnerVars

\* lines 84-97
CheckDirectory ==
    /\ pc = "start"
    /\ directory' = abspath(directory)
    /\ IF ~exists(directory')
       THEN /\ printed' = Append(printed, Msg("error_no_directory"))
            /\ result' = "False"
            /\ pc' = "done"
            /\ UNCHANGED <<fs, destination_folder>>
       ELSE /\ IF Truthy(destination_folder)
               THEN /\ destination_folder' = abspath(destination_folder)
                    /\ fs' = IF ~exists(destination_folder')
                             THEN makedirs(destination_folder') ELSE fs
               ELSE UNCHANGED <<fs, destination_folder>>
            /\ pc' = "scan"
            /\ UNCHANGED <<printed, result>>
    /\ UNCHANGED <<cwd, output_file, video_files, concat_file, concat_data,
                   args>>
    /\ UNCHANGED runnerVars

\* lines 98-114: the scan, with the order of each os.listdir left open.  The
\* listing of the first files and get_total_size only print.
Scan ==
    /\ pc = "scan"
    /\ LET d == ScanDirectory(directory) IN
       \E listing1 \in Orders(listdir(d)),
          listing2 \in Orders(listdir(join(d, S_Parking))) :
           video_files' = find_video_files(directory, listing1, listing2)
    /\ IF video_files' = <<>>
       THEN /\ printed' = Append(printed, Msg("error_no_video_files"))
            /\ result' = "False"
            /\ pc' = "done"
       ELSE /\ pc' = "manifest"
            /\ UNCHANGED <<printed, result>>
    /\ UNCHANGED <<fs, cwd, directory, output_file, destination_folder,
                   concat_file, concat_data, args>>
    /\ UNCHANGED runnerVars

\* lines 116-119.  open() can fail before the file exists, and a write can
\* fail after some entries were written; both raise out of stitch_videos.
CreateManifest ==
    /\ pc = "manifest"
    /\ concat_file' = join(dirname(video_files[1][2]), S_concat_list)
    /\ \/ /\ fs' = fs \cup {[path |-> concat_file', kind |-> "file"]}
          /\ concat_data' = create_concat_file(video_files)
          /\ pc' = "resolve"
          /\ UNCHANGED result
       \/ /\ UNCHANGED <<fs, concat_data>>
          /\ result' = "raised"
          /\ pc' = "done"
       \/ \E k \in 0..(Len(video_files) - 1) :
          /\ fs' = fs \cup {[path |-> concat_file', kind |-> "file"]}
          /\ concat_data' = create_concat_file(SubSeq(video_files, 1, k))
          /\ result' = "raised"
          /\ pc' = "done"
    /\ UNCHANGED <<cwd, directory, output_file, destination_folder,
                   video_files, printed, args>>
    /\ UNCHANGED runnerVars

\* lines 121-138
ResolveOutput ==
    /\ pc = "resolve"
    /\ LET r == resolve_output(output_file, destination_folder, directory) IN
       /\ output_file' = r.path
       /\ printed' = IF r.warn
                     THEN Append(printed, Msg("warn_destination_ignored"))
                     ELSE printed
    /\ pc' = "launch"
    /\ UNCHANGED <<fs, cwd, directory, destination_folder, video_files,
                   concat_file, concat_data, result, args>>
    /\ UNCHANGED runnerVars

----------------------------------------------------------------------------
\* stitch_videos: the ffmpeg child and the read loop (lines 140-202).

preVars == <<cwd, directory, destination_folder, video_files, concat_file,
             concat_data, output_file, args>>

\* line 156: Popen either starts the child or raises
Launch ==
    /\ pc = "launch"
    /\ \/ /\ mux' = "running"
          /\ launches' = launches + 1
          /\ file_count' = 0
          /\ stderr_output' = <<>>
          /\ pc' = "read"
          /\ UNCHANGED <<printed, result>>
       \/ /\ printed' = Append(printed, Msg("error_ffmpeg_not_found"))
          /\ result' = "False"
          /\ pc' = "done"
          /\ UNCHANGED <<mux, launches, file_count, stderr_output>>
       \/ /\ printed' = Append(printed, Msg("error_exception"))
          /\ result' = "False"
          /\ pc' = "done"
          /\ UNCHANGED <<mux, launches, file_count, stderr_output>>
    /\ UNCHANGED <<fs, mux_op, mux_written, stderr_pipe, stdout_pipe,
                   returncode>>
    /\ UNCHANGED preVars

\* line 164
IsOpeningLine(line) ==
    /\ Contains(line, S_Opening)
    /\ \E i \in 1..Len(line_extensions) : Contains(line, line_extensions[i])

\* line 171
IsWarningLine(line) ==
    Contains(lower(line), S_warning) \/ Contains(lower(line), S_error)

Last(seq) == seq[Len(seq)]

\* line 166
OpenedPath(line) == split(line, "'")[2]

OpenedName(line) == Last(split(Last(split(OpenedPath(line), "/")), "\\"))

\* line 168
FileType(filename) == IF Contains(filename, S_PF) THEN "PARKING" ELSE "DRIVING"

\* str.strip() of the trailing newline
strip(line) ==
    IF line # <<>> /\ line[Len(line)] = "\n"
    THEN SubSeq(line, 1, Len(line) - 1) ELSE line

\* lines 161-172: one iteration of the loop over process.stderr
ReadLine ==
    /\ pc = "read"
    /\ stderr_pipe # <<>>
    /\ LET line == Head(stderr_pipe) IN
       /\ stderr_pipe' = Tail(stderr_pipe)
       /\ stderr_output' = Append(stderr_output, line)
       /\ IF IsOpeningLine(line)
          THEN /\ file_count' = file_count + 1
               /\ printed' = Append(printed,
                      Progress(file_count', Len(video_files),
                               FileType(OpenedName(line)), OpenedName(line),
                               OpenedPath(line)))
          ELSE /\ UNCHANGED file_count
               /\ printed' = IF IsWarningLine(line)
                             THEN Append(printed,
                                         TextMsg("warning", strip(line)))
                             ELSE printed
    /\ UNCHANGED <<fs, pc, result, mux, mux_op, mux_written, stdout_pipe,
                   returncode, launches>>
    /\ UNCHANGED preVars

\* reading a line raises (undecodable bytes): line 200 catches it
ReadRaises ==
    /\ pc = "read"
    /\ stderr_pipe # <<>>
    /\ stderr_pipe' = Tail(stderr_pipe)
    /\ printed' = Append(printed, Msg("error_exception"))
    /\ result' = "False"
    /\ pc' = "done"
    /\ UNCHANGED <<fs, file_count, stderr_output, mux, mux_op, mux_written,
                   stdout_pipe, returncode, launches>>
    /\ UNCHANGED preVars

RECURSIVE ErrorOutput(_)
ErrorOutput(lines) ==
    IF lines = <<>> THEN <<>>
    ELSE <<TextMsg("ffmpeg_line", strip(lines[1]))>>
         \o ErrorOutput(Tail(lines))

\* Verdict with a failed removal of the manifest counted as a failure
VerdictCountsCleanup(code, removed) == code = 0 /\ removed

\* line 182: whether the run is reported as a success
Verdict(code, removed) == code = 0

\* lines 174-194: end of stream, wait, remove the manifest, verdict
Finish ==
    /\ pc = "read"
    /\ stderr_pipe = <<>>
    /\ mux = "exited"
    /\ \E removed \in BOOLEAN :
       LET cleanup == IF removed THEN <<>> ELSE <<Msg("warn_cleanup")>> IN
       /\ fs' = IF removed THEN { e \in fs : e.path # concat_file } ELSE fs
       /\ IF Verdict(returncode, removed)
          THEN /\ printed' = printed \o cleanup
                     \o <<[Msg("success") EXCEPT !.n = Len(video_files),
                                                 !.text = output_file]>>
               /\ result' = "True"
          ELSE /\ printed' = printed \o cleanup
                     \o <<[Msg("error_exit") EXCEPT !.n = returncode]>>
                     \o ErrorOutput(stderr_output)
               /\ result' = "False"
    /\ pc' = "done"
    /\ UNCHANGED <<file_count, stderr_output, mux, mux_op, mux_written,
                   stderr_pipe, stdout_pipe, returncode, launches>>
    /\ UNCHANGED preVars

\* The ffmpeg child.  It writes lines to stderr and stdout and exits; a write
\* completes only when its pipe has room.

OpeningLine(path) ==
    S_Opening \o path \o <<"'", "\n">>

WarnLine  == <<"W", "a", "r", "n", "i", "n", "g", "\n">>
OtherLine == <<"s", "i", "z", "e", "\n">>

ErrLines == { OpeningLine(video_files[i][2]) : i \in 1..Len(video_files) }
            \cup {WarnLine, OtherLine}

MuxerBegin ==
    /\ mux = "running"
    /\ mux_op = <<>>
    /\ mux_written < MaxLines
    /\ \/ \E line \in ErrLines : mux_op' = <<"stderr", line>>
       \/ mux_op' = <<"stdout", OtherLine>>
    /\ mux_written' = mux_written + 1
    /\ UNCHANGED <<fs, pc, result, printed, file_count, stderr_output, mux,
                   stderr_pipe, stdout_pipe, returncode, launches>>
    /\ UNCHANGED preVars

MuxerWriteStderr ==
    /\ mux = "running"
    /\ mux_op # <<>>
    /\ mux_op[1] = "stderr"
    /\ Len(stderr_pipe) < PipeCap
    /\ stderr_pipe' = Append(stderr_pipe, mux_op[2])
    /\ mux_op' = <<>>
    /\ UNCHANGED <<fs, pc, result, printed, file_count, stderr_output, mux,
                   mux_written, stdout_pipe, returncode, launches>>
    /\ UNCHANGED preVars

MuxerWriteStdout ==
    /\ mux = "running"
    /\ mux_op # <<>>
    /\ mux_op[1] = "stdout"
    /\ Len(stdout_pipe) < PipeCap
    /\ stdout_pipe' = Append(stdout_pipe, mux_op[2])
    /\ mux_op' = <<>>
    /\ UNCHANGED <<fs, pc, result, printed, file_count, stderr_output, mux,
                   mux_written, stderr_pipe, returncode, launches>>
    /\ UNCHANGED preVars

MuxerExit ==
    /\ mux = "running"
    /\ mux_op = <<>>
    /\ \E code \in {0, 1} : returncode' = code
    /\ mux' = "exited"
    /\ UNCHANGED <<fs, pc, result, printed, file_count, stderr_output, mux_op,
                   mux_written, stderr_pipe, stdout_pipe, launches>>
    /\ UNCHANGED preVars

----------------------------------------------------------------------------
\* Directory trees and call arguments.

P_d == <<"/", "d">>
P_w == <<"/", "w">>
P_o == <<"/", "o">>

Dir(p)  == [path |-> p, kind |-> "dir"]
File(p) == [path |-> p, kind |-> "file"]

N_a       == <<"a", ".", "m", "p", "4">>
N_bUpper  == <<"b", ".", "M", "P", "4">>
N_sidecar == <<".", "_", "a", ".", "m", "p", "4">>
N_hidden  == <<".", "D", "S">>
N_cMixed  == <<"c", ".", "M", "p", "4">>
N_text    == <<"n", ".", "t", "x", "t">>
N_quote   == <<"q", "'", ".", "m", "p", "4">>
N_dirMkv  == <<"e", ".", "m", "k", "v">>
N_parkA   == S_Parking \o <<"/">> \o N_a
N_park0   == S_Parking \o <<"/", "0", ".", "m", "p", "4">>
N_parkPF  == S_Parking \o <<"/", "P", "F", ".", "m", "p", "4">>
N_subZ    == <<"S", "/", "z", ".", "m", "p", "4">>

\* entries that a tree may hold below the scanned folder
Candidates ==
    { [rel |-> N_a, kind |-> "file"], [rel |-> N_bUpper, kind |-> "file"],
      [rel |-> N_sidecar, kind |-> "file"], [rel |-> N_hidden, kind |-> "file"],
      [rel |-> N_cMixed, kind |-> "file"], [rel |-> N_text, kind |-> "file"],
      [rel |-> N_quote, kind |-> "file"], [rel |-> N_dirMkv, kind |-> "dir"],
      [rel |-> N_parkA, kind |-> "file"], [rel |-> N_park0, kind |-> "file"],
      [rel |-> N_subZ, kind |-> "file"] }

RunCandidates ==
    { [rel |-> N_a, kind |-> "file"], [rel |-> N_park0, kind |-> "file"],
      [rel |-> N_parkPF, kind |-> "file"] }

\* the tree holding the chosen entries below base, with every parent folder
Tree(base, chosen) ==
    {Dir(P_w)}
    \cup { Dir(q) : q \in PathAndParents(base) }
    \cup { [path |-> join(base, c.rel), kind |-> c.kind] : c \in chosen }
    \cup { Dir(q) : q \in UNION { PathAndParents(dirname(join(base, c.rel))) :
                                      c \in chosen } }

Trees(cands, max) ==
    { Tree(base, chosen) :
          base \in {P_d, join(P_d, S_Movie)},
          chosen \in { c \in SUBSET cands : Cardinality(c) <= max } }

InitWith(trees, dirs, outs, dests) ==
    /\ fs \in trees
    /\ cwd = P_w
    /\ directory \in dirs
    /\ output_file \in outs
    /\ destination_folder \in dests
    /\ args = [directory |-> directory, output_file |-> output_file,
               destination_folder |-> destination_folder]
    /\ video_files = <<>>
    /\ concat_file = <<>>
    /\ concat_data = <<>>
    /\ pc = "start"
    /\ result = "none"
    /\ printed = <<>>
    /\ file_count = 0
    /\ stderr_output = <<>>
    /\ mux = "none"
    /\ mux_op = <<>>
    /\ mux_written = 0
    /\ stderr_pipe = <<>>
    /\ stdout_pipe = <<>>
    /\ returncode = -1
    /\ launches = 0

N_trip == <<"t", ".", "m", "p", "4">>

\* A whole run of stitch_videos.
Init ==
    InitWith({{Dir(P_w)}} \cup Trees(RunCandidates, 2), {P_d},
             {None}, {None, P_o})

Next ==
    \/ CheckDirectory
    \/ Scan
    \/ CreateManifest
    \/ ResolveOutput
    \/ Launch
    \/ ReadLine
    \/ ReadRaises
    \/ Finish
    \/ MuxerBegin
    \/ MuxerWriteStderr
    \/ MuxerWriteStdout
    \/ MuxerExit

Spec == Init /\ [][Next]_vars

\* The scanner and the manifest writer over many directory trees.
InitScan == InitWith(Trees(Candidates, MaxFiles), {P_d}, {None}, {None})

NextScan == CheckDirectory \/ Scan \/ CreateManifest

SpecScan == InitScan /\ [][NextScan]_vars

----------------------------------------------------------------------------
\* Properties of a whole run (Spec).

Kinds(k) == { i \in 1..Len(printed) : printed[i].kind = k }

VerdictReached == Kinds("success") \cup Kinds("error_exit") # {}

\* C1: in every terminal state of a run that computed the manifest path,
\* the manifest file concat_list.txt is absent.
C1_ManifestAbsentAtExit ==
    (pc = "done" /\ concat_file # <<>>) => ~exists(concat_file)

\* C2: no state has the child blocked writing to a full pipe while
\* stitch_videos is blocked waiting for a line on stderr.
C2_NoPipeDeadlock ==
    ~ /\ pc = "read"
      /\ stderr_pipe = <<>>
      /\ mux = "running"
      /\ mux_op # <<>>
      /\ Len(IF mux_op[1] = "stdout" THEN stdout_pipe ELSE stderr_pipe)
             >= PipeCap

\* C7: the tag of a progress line for a file of the scan result is the
\* provenance the scanner recorded for that file.
C7_TagMatchesProvenance ==
    \A i \in Kinds("progress") : \A j \in 1..Len(video_files) :
        video_files[j][2] = printed[i].opened
            => printed[i].tag = (IF video_files[j][1] = "parking"
                                 THEN "PARKING" ELSE "DRIVING")

\* C10: the counter n of every progress line satisfies 1 <= n <= total,
\* where total is the number of segments.
C10_CounterWithinTotal ==
    \A i \in Kinds("progress") :
        /\ printed[i].total = Len(video_files)
        /\ 1 <= printed[i].n
        /\ printed[i].n <= printed[i].total

RootMissing == ~exists(abspath(args.directory))

C8_StateOk ==
    /\ launches <= 1
    /\ (mux # "none" \/ launches > 0) =>
           /\ exists(directory)
           /\ video_files # <<>>
           /\ concat_data = create_concat_file(video_files)
    /\ pc = "read" => isfile(concat_file)
    /\ (pc # "start" /\ RootMissing) =>
           /\ pc = "done" /\ result = "False"
           /\ video_files = <<>> /\ concat_file = <<>>
           /\ mux = "none" /\ launches = 0
    /\ (pc = "done" /\ video_files = <<>>) => (mux = "none" /\ launches = 0)
    /\ result = "raised" => (mux = "none" /\ launches = 0)

\* C8: ffmpeg is launched at most once, and only when the source directory
\* exists, the scan found a file and the manifest was written completely;
\* a run on a missing source directory fails and changes nothing on disk;
\* no ffmpeg is started after an empty scan or a failed manifest write.
C8_LaunchOnlyWhenReady ==
    /\ []C8_StateOk
    /\ [][(pc = "start" /\ ~exists(abspath(directory))) => fs' = fs]_vars

C8_Witness == pc = "done" /\ launches = 1 /\ result = "True"

FfmpegLines ==
    SelectSeq(printed, LAMBDA m : m.kind = "ffmpeg_line")

\* C9: once the verdict is reached, the run is a success exactly when the
\* exit status is zero; the manifest was removed, or the removal failed with
\* a warning printed before the verdict; on a non-zero exit every line read
\* from stderr is printed, in the order read, after the error message.
C9_VerdictFollowsExitStatus ==
    /\ result = "True" => VerdictReached
    /\ VerdictReached =>
       /\ pc = "done" /\ mux = "exited"
       /\ result = "True" <=> returncode = 0
       /\ result = "False" <=> returncode # 0
       /\ Kinds("success") # {} <=> returncode = 0
       /\ \/ ~exists(concat_file)
          \/ \E i \in Kinds("warn_cleanup") :
                 \A j \in Kinds("success") \cup Kinds("error_exit") : i < j
       /\ returncode # 0 =>
             /\ Len(FfmpegLines) = Len(stderr_output)
             /\ \A k \in 1..Len(stderr_output) :
                    /\ FfmpegLines[k].text = strip(stderr_output[k])
                    /\ printed[Len(printed) - Len(stderr_output) + k]
                           = FfmpegLines[k]
       /\ returncode = 0 => FfmpegLines = <<>>

C9_Witness ==
    /\ VerdictReached
    /\ returncode # 0
    /\ Len(stderr_output) >= 2
    /\ stderr_output[1] # stderr_output[2]
    /\ Kinds("warn_cleanup") # {}

----------------------------------------------------------------------------
\* Output path resolution over many argument combinations.

OutputNames ==
    { None, <<>>, N_trip,
      <<"s", "/">> \o N_trip,
      <<"/", "x", "/">> \o N_trip,
      <<".", "/">> \o N_trip,
      <<".", ".", "/">> \o N_trip }

Destinations ==
    { None, <<>>, P_o, <<"o">>, <<"/", "d", "/", ".", ".", "/", "o">> }

InitResolve ==
    InitWith({ Tree(P_d, {[rel |-> N_a, kind |-> "file"]}),
               Tree(join(P_d, S_Movie), {[rel |-> N_park0, kind |-> "file"]}),
               Tree(P_d, {[rel |-> N_a, kind |-> "file"]}) \cup {Dir(P_o)} },
             {P_d, <<".", ".", "/", "d">>}, OutputNames, Destinations)

NextResolve == CheckDirectory \/ Scan \/ CreateManifest \/ ResolveOutput

SpecResolve == InitResolve /\ [][NextResolve]_vars

Given(x) == x # None /\ x # <<>>

RequestedName ==
    IF Given(args.output_file) THEN args.output_file ELSE S_stitched_output

IsBareName(name) == \A i \in 1..Len(name) : name[i] # "/"

\* C4: the resolved output path is absolute; an absent name stands for
\* stitched_output.mp4; a bare name goes into the destination folder when
\* one is given and into the source directory otherwise; a name with a
\* directory part is kept, and the warning is printed exactly when a
\* destination folder was given as well.
C4_OutputPathPrecedence ==
    pc = "launch" =>
        /\ output_file # <<>> /\ output_file[1] = "/"
        /\ IsBareName(RequestedName) =>
              /\ output_file =
                    (IF Given(args.destination_folder)
                     THEN abspath(args.destination_folder)
                     ELSE abspath(args.directory)) \o <<"/">> \o RequestedName
              /\ Kinds("warn_destination_ignored") = {}
        /\ ~IsBareName(RequestedName) =>
              /\ output_file = abspath(RequestedName)
              /\ Kinds("warn_destination_ignored") # {}
                    <=> Given(args.destination_folder)

C4_Witness ==
    /\ pc = "launch"
    /\ IsBareName(RequestedName)
    /\ Given(args.output_file)
    /\ Given(args.destination_folder)
    /\ args.destination_folder # destination_folder

----------------------------------------------------------------------------
\* Properties of the scanner and of the manifest (SpecScan).

Scanned == pc \notin {"start", "scan"}

Key(i)  == basename(video_files[i][2])
Type(i) == video_files[i][1]

\* C3 as amended: the scan result is ordered by base name, a driving file
\* precedes the Parking file of the same base name, the result is the same
\* for every enumeration order of the two folders, and sorting it again
\* changes nothing.
C3_OrderIsDeterministic ==
    Scanned =>
        /\ \A i, j \in 1..Len(video_files) : i < j =>
              \/ StrLess(Key(i), Key(j))
              \/ Key(i) = Key(j) /\ Type(i) = "driving" /\ Type(j) = "parking"
        /\ sort_by_basename(video_files) = video_files
        /\ pc = "manifest" =>
              LET d == ScanDirectory(directory) IN
              \A listing1 \in Orders(listdir(d)),
                 listing2 \in Orders(listdir(join(d, S_Parking))) :
                  find_video_files(directory, listing1, listing2) = video_files

C3_Witness ==
    /\ pc = "manifest"
    /\ Len(video_files) = 3
    /\ \E i \in 1..2 : Key(i) = Key(i + 1)

\* C3: the scan result is ordered by base name with equal base names
\* ordered by the full path string.
C3_TiesByFullPath ==
    Scanned =>
        \A i, j \in 1..Len(video_files) : i < j =>
            \/ StrLess(Key(i), Key(j))
            \/ /\ Key(i) = Key(j)
               /\ ~StrLess(video_files[j][2], video_files[i][2])

\* what the scanner is specified to find: every regular file at any depth
\* below the scanned folder that is not hidden and has a video extension in
\* any letter case, parking when a path component is "Parking"
LowerExtensions == { video_extensions[i] : i \in 1..4 }

ExpectedSegments ==
    LET root == ScanDirectory(directory)
        wanted == { e \in fs :
                      /\ e.kind = "file"
                      /\ startswith(e.path, root \o <<"/">>)
                      /\ ~startswith(basename(e.path), <<".">>)
                      /\ \E x \in LowerExtensions :
                             endswith(lower(basename(e.path)), x) }
    IN  { <<IF \E k \in 1..Len(split(e.path, "/")) :
                   split(e.path, "/")[k] = S_Parking
            THEN "parking" ELSE "driving", e.path>> : e \in wanted }

\* C5: the segments found are exactly the expected segments.
C5_ScanFindsAllVideoFiles ==
    Scanned =>
        { video_files[i] : i \in 1..Len(video_files) } = ExpectedSegments

\* The concat demuxer's reading of a manifest line: the keyword "file", then
\* one token in which '...' quotes, \ escapes the next character outside
\* quotes, and unquoted white space ends the token.
RECURSIVE GetToken(_, _, _)
GetToken(buf, quoted, out) ==
    IF buf = <<>> THEN out
    ELSE IF quoted
         THEN IF buf[1] = "'" THEN GetToken(Tail(buf), FALSE, out)
              ELSE GetToken(Tail(buf), TRUE, Append(out, buf[1]))
    ELSE IF buf[1] = "\\" /\ Len(buf) > 1
         THEN GetToken(SubSeq(buf, 3, Len(buf)), FALSE, Append(out, buf[2]))
    ELSE IF buf[1] = "'" THEN GetToken(Tail(buf), TRUE, out)
    ELSE IF buf[1] = " " THEN out
    ELSE GetToken(Tail(buf), FALSE, Append(out, buf[1]))

ManifestLines ==
    SelectSeq(split(concat_data, "\n"), LAMBDA l : l # <<>>)

ManifestTokens ==
    [i \in 1..Len(ManifestLines) |->
        GetToken(SubSeq(ManifestLines[i], 6, Len(ManifestLines[i])),
                 FALSE, <<>>)]

\* C6: the manifest has one line per segment and each line reads back as
\* one path token equal to the segment's path.
C6_ManifestReadsBack ==
    pc = "resolve" =>
        /\ Len(ManifestLines) = Len(video_files)
        /\ \A i \in 1..Len(ManifestLines) :
               /\ startswith(ManifestLines[i], SubSeq(S_file, 1, 5))
               /\ ManifestTokens[i] = video_files[i][2]

====
